---- MODULE Spec2Model ----
(***************************************************************************)
(* Simple Email Sandbox: the thread/message core of src/src/app.ts over    *)
(* the SQLite tables of src/src/db/service.ts.                             *)
(*                                                                         *)
(* The Express handlers hold no await and better-sqlite3 is synchronous,   *)
(* so every request handler runs to completion on Node's event loop: one   *)
(* action per handler.  A request is first received (it is in flight in    *)
(* req), then handled by the handler of its route (which leaves the        *)
(* response in resp), then the response is delivered.                      *)
(*                                                                         *)
(* Text values (addresses, subjects, bodies, identifiers) are sequences of *)
(* one-character strings, so that trim, the /^re:/i test, String() and     *)
(* parseInt() are computed, not assumed.                                   *)
(*                                                                         *)
(* Specifications: Spec (the writing routes over every kind of request),   *)
(* SpecFault (the same handlers with one storage call throwing), SpecRead  *)
(* (writing and reading routes together), SpecThread (one thread opened    *)
(* with any subject and with bodies around the preview length), SpecInbox  *)
(* (a mailbox longer than the default inbox limit).                        *)
(***************************************************************************)
EXTENDS Integers, Sequences, FiniteSets, TLC

VARIABLES
    groups,     \* table groups: group id -> [agents]
    threads,    \* table threads: thread id -> [groupId, subject, createdBy, lastIndex]
    messages,   \* table messages in rowid (AUTOINCREMENT) order
    dbOpen,     \* FALSE once /admin/reset has closed the connection
    req,        \* the request in flight, NoReq when none
    resp        \* the response of the handler that just ran, NoResp when none

vars == <<groups, threads, messages, dbOpen, req, resp>>

-----------------------------------------------------------------------------
(* Bounds of the model *)

MaxRows == 3        \* rows of table messages
MaxThreads == 2     \* rows of table threads
MaxSubject == 4     \* characters of a subject drawn letter by letter
MaxBody == 502      \* characters of the longest body drawn
MaxInbox == 12      \* rows of table messages in SpecInbox

-----------------------------------------------------------------------------
(* JavaScript values *)

\* undefined: a field absent from the request body
Undefined == <<"undefined">>

\* the JSON value true in a field of the request body
JsTrue == <<"true">>

\* !v for a string-valued field: undefined and "" are falsy
Falsy(v) == v = Undefined \/ v = <<>>

\* v ?? d
Coalesce(v, d) == IF v = Undefined THEN d ELSE v

\* v || d  for strings
OrElse(v, d) == IF Falsy(v) THEN d ELSE v

RECURSIVE TrimStart(_)
TrimStart(s) ==
    IF s # <<>> /\ Head(s) = " " THEN TrimStart(Tail(s)) ELSE s

RECURSIVE TrimEnd(_)
TrimEnd(s) ==
    IF s # <<>> /\ s[Len(s)] = " " THEN TrimEnd(SubSeq(s, 1, Len(s) - 1)) ELSE s

\* String.prototype.trim
Trim(s) == TrimEnd(TrimStart(s))

Digits == <<"0", "1", "2", "3", "4", "5", "6", "7", "8", "9">>

DigitValue(c) == (CHOOSE i \in 1..10 : Digits[i] = c) - 1

IsDigit(c) == \E i \in 1..10 : Digits[i] = c

\* String(n) for an integer n
RECURSIVE ToStr(_)
ToStr(n) ==
    IF n < 0 THEN <<"-">> \o ToStr(0 - n)
    ELSE IF n < 10 THEN <<Digits[n + 1]>>
    ELSE ToStr(n \div 10) \o <<Digits[(n % 10) + 1]>>

\* the value of the longest prefix of digits of s, acc being the value read so far;
\* <<>> when s does not start with a digit and nothing was read
RECURSIVE ReadDigits(_, _, _)
ReadDigits(s, acc, any) ==
    IF s # <<>> /\ IsDigit(Head(s))
    THEN ReadDigits(Tail(s), acc * 10 + DigitValue(Head(s)), TRUE)
    ELSE IF any THEN <<acc>> ELSE <<>>

\* Number.parseInt(s, 10): <<n>> for the integer n, <<>> for NaN
ParseInt(s) ==
    LET t == TrimStart(s)
        signed == t # <<>> /\ Head(t) \in {"-", "+"}
        d == ReadDigits(IF signed THEN Tail(t) ELSE t, 0, FALSE)
    IN  IF d = <<>> THEN <<>>
        ELSE IF signed /\ Head(t) = "-" THEN <<0 - d[1]>> ELSE d

\* Array.from(new Set(s)): first occurrences, in insertion order
RECURSIVE Dedup(_)
Dedup(s) ==
    IF s = <<>> THEN <<>>
    ELSE LET h == s[Len(s)]
             init == Dedup(SubSeq(s, 1, Len(s) - 1))
         IN  IF \E i \in 1..Len(init) : init[i] = h THEN init ELSE Append(init, h)

Elems(s) == {s[i] : i \in 1..Len(s)}

\* Array.prototype.reverse
Reverse(s) == [i \in 1..Len(s) |-> s[Len(s) + 1 - i]]

\* s.slice(0, n) for n >= 0, and SQL's LIMIT n
Take(s, n) == SubSeq(s, 1, IF n < Len(s) THEN n ELSE Len(s))

AllDigits(s) == \A i \in 1..Len(s) : IsDigit(s[i])

\* Number(raw) for undefined or a decimal literal: <<>> for NaN, else whether the
\* number is an integer and, when it is, its value.  Number("") is 0.
ToNumber(raw) ==
    IF raw = Undefined THEN <<>>
    ELSE
    LET t == Trim(raw)
        signed == t # <<>> /\ Head(t) \in {"-", "+"}
        u == IF signed THEN Tail(t) ELSE t
        dots == {i \in 1..Len(u) : u[i] = "."}
        dot == IF dots = {} THEN 0 ELSE CHOOSE i \in dots : \A j \in dots : i <= j
        ip == IF dot = 0 THEN u ELSE SubSeq(u, 1, dot - 1)
        fp == IF dot = 0 THEN <<>> ELSE SubSeq(u, dot + 1, Len(u))
        magnitude == IF ip = <<>> THEN 0 ELSE ReadDigits(ip, 0, FALSE)[1]
    IN  IF t = <<>> THEN <<[int |-> TRUE, val |-> 0]>>
        ELSE IF ~AllDigits(ip) \/ ~AllDigits(fp) \/ (ip = <<>> /\ fp = <<>>) THEN <<>>
        ELSE <<[int |-> \A i \in 1..Len(fp) : fp[i] = "0",
                val |-> IF signed /\ Head(t) = "-" THEN 0 - magnitude ELSE magnitude]>>

-----------------------------------------------------------------------------
(* Program constants *)

DEFAULT_LIMIT == 10

BODY_PREVIEW_LENGTH == 500

\* "No subject"
DEFAULT_SUBJECT == <<"N", "o", " ", "s", "u", "b", "j", "e", "c", "t">>

-----------------------------------------------------------------------------
(* Values of the model: addresses, group ids, thread ids *)

Alice == <<"a">>
Bob == <<"b">>
Carol == <<"c">>
Dave == <<"d">>

GroupG == <<"@", "g">>
GroupH == <<"@", "h">>

\* the n-th thread identifier that randomUUID() hands out
Uuid(n) == <<"u">> \o ToStr(n)

\* randomUUID(): an identifier no thread uses.  Identifiers are opaque, so the
\* first unused one stands for every unused one.
randomUUID ==
    Uuid(CHOOSE n \in 1..(Cardinality(DOMAIN threads) + 1) :
            /\ Uuid(n) \notin DOMAIN threads
            /\ \A k \in 1..(n - 1) : Uuid(k) \in DOMAIN threads)

\* the n-th reading of the clock, as new Date().toISOString() prints it
Time(n) == <<"T">> \o ToStr(n)

\* new Date().toISOString(): the clock reads req.at while the request in flight
\* is handled
Now == req.at

\* a request-body field "to": a string or an array of strings
Str(s) == [isArray |-> FALSE, val |-> s]
Arr(a) == [isArray |-> TRUE, val |-> a]

\* !to : undefined and "" are falsy, every array is truthy
ToFalsy(t) == ~t.isArray /\ Falsy(t.val)

-----------------------------------------------------------------------------
(* src/src/schema.ts *)

\* numbering from one
ThreadOneBased(groupId, subject, createdBy) ==
    [threadId |-> randomUUID, groupId |-> groupId, subject |-> subject,
     createdBy |-> createdBy, lastIndex |-> <<"1">>]

\* new Thread(groupId, subject, createdBy): lastIndex starts at "0"
Thread(groupId, subject, createdBy) ==
    [threadId |-> randomUUID, groupId |-> groupId, subject |-> subject,
     createdBy |-> createdBy, lastIndex |-> <<"0">>]

\* Thread.addMessage
addMessage(thread, messageId) == [thread EXCEPT !.lastIndex = messageId]

\* a message for an existing thread filed under group @h whatever the caller passes
MessageFixedGroup(groupId, from, to, body, threadId, subject) ==
    LET spawns == Falsy(threadId)
        newThread == Thread(groupId, Coalesce(subject, <<>>), from)
    IN  [message |->
            [groupId |-> IF spawns THEN groupId ELSE GroupH,
             threadId |-> IF spawns THEN newThread.threadId ELSE threadId,
             messageId |-> IF spawns THEN newThread.lastIndex ELSE <<"0">>,
             from |-> from, to |-> to,
             subject |-> Coalesce(subject, <<>>), body |-> body,
             createdAt |-> Now],
         spawnedThread |->
            IF spawns THEN <<addMessage(newThread, newThread.lastIndex)>> ELSE <<>>]

\* new Message(groupId, from, to, body, threadId, subject): without a threadId the
\* constructor spawns the thread and takes its lastIndex as messageid; with one the
\* messageid is the placeholder "0", to be set by the caller
Message(groupId, from, to, body, threadId, subject) ==
    LET spawns == Falsy(threadId)
        newThread == Thread(groupId, Coalesce(subject, <<>>), from)
    IN  [message |->
            [groupId |-> groupId,
             threadId |-> IF spawns THEN newThread.threadId ELSE threadId,
             messageId |-> IF spawns THEN newThread.lastIndex ELSE <<"0">>,
             from |-> from, to |-> to,
             subject |-> Coalesce(subject, <<>>), body |-> body,
             createdAt |-> Now],
         spawnedThread |->
            IF spawns THEN <<addMessage(newThread, newThread.lastIndex)>> ELSE <<>>]

-----------------------------------------------------------------------------
(* src/src/db/service.ts over the tables of initDatabase.  A storage call  *)
(* either returns or throws; a call that throws leaves the tables as they  *)
(* were (each statement is its own SQLite transaction).                    *)

\* the three tables as the handler finds them
Tables == [groups |-> groups, threads |-> threads, messages |-> messages]

\* the steps of a handler at which the storage layer can be made to throw
FaultPoints == {"createGroup", "createThread", "insertMessage", "updateLastIndex"}

\* stmt.run binds numbers, strings, bigints, buffers and null; of the values of
\* the model only the boolean is none of them, and binding it throws
Bindable(v) == v # JsTrue

\* table messages without the UNIQUE constraint
UniqueViolationUnchecked(rows, m) == FALSE

\* UNIQUE(thread_id, message_id) of table messages
UniqueViolation(rows, m) ==
    \E i \in 1..Len(rows) :
        rows[i].threadId = m.threadId /\ rows[i].messageId = m.messageId

\* DatabaseService.getGroup
getGroup(db, groupId) ==
    IF groupId \in DOMAIN db.groups THEN <<db.groups[groupId]>> ELSE <<>>

\* DatabaseService.createGroup: INSERT INTO groups, id is the PRIMARY KEY.  The
\* handlers only ask whether an address is among group.agents, so the roster is
\* kept as a set.
createGroup(db, groupId, agents, fault) ==
    IF fault = "createGroup" \/ groupId \in DOMAIN db.groups
    THEN [threw |-> TRUE, db |-> db]
    ELSE [threw |-> FALSE,
          db |-> [db EXCEPT !.groups = (groupId :> [agents |-> agents]) @@ db.groups]]

\* DatabaseService.getThread
getThread(db, threadId) ==
    IF threadId \in DOMAIN db.threads
    THEN <<[db.threads[threadId] EXCEPT !.threadId = threadId]>>
    ELSE <<>>

\* DatabaseService.createThread: thread_id is the PRIMARY KEY, group_id a FOREIGN KEY
createThread(db, thread, fault) ==
    IF \/ fault = "createThread"
       \/ ~Bindable(thread.subject)
       \/ thread.threadId \in DOMAIN db.threads
       \/ thread.groupId \notin DOMAIN db.groups
    THEN [threw |-> TRUE, db |-> db]
    ELSE [threw |-> FALSE,
          db |-> [db EXCEPT !.threads = (thread.threadId :> thread) @@ db.threads]]

\* the UPDATE without its WHERE clause
updateThreadLastIndexEveryThread(db, threadId, lastIndex) ==
    [db EXCEPT !.threads = [t \in DOMAIN db.threads |->
                              [db.threads[t] EXCEPT !.lastIndex = lastIndex]]]

\* the UPDATE left out
updateThreadLastIndexSkipped(db, threadId, lastIndex) == db

\* DatabaseService.updateThreadLastIndex
updateThreadLastIndex(db, threadId, lastIndex) ==
    IF threadId \in DOMAIN db.threads
    THEN [db EXCEPT !.threads[threadId].lastIndex = lastIndex]
    ELSE db

\* DatabaseService.createMessage: the INSERT, then the UPDATE of last_index
createMessage(db, m, fault) ==
    IF \/ fault = "insertMessage"
       \/ ~Bindable(m.body)
       \/ UniqueViolation(db.messages, m)
       \/ m.threadId \notin DOMAIN db.threads
       \/ m.groupId \notin DOMAIN db.groups
    THEN [threw |-> TRUE, db |-> db]
    ELSE LET row == [m EXCEPT !.subject = OrElse(m.subject, <<>>)]
             inserted == [db EXCEPT !.messages = Append(db.messages, row)]
         IN  IF fault = "updateLastIndex"
             THEN [threw |-> TRUE, db |-> inserted]
             ELSE [threw |-> FALSE,
                   db |-> updateThreadLastIndex(inserted, m.threadId, m.messageId)]

\* the constructor's clock reading kept
getMessageFreshCreatedAt(db, threadId, messageId) ==
    LET hits == SelectSeq(db.messages,
                    LAMBDA row : row.threadId = threadId /\ row.messageId = messageId)
    IN  IF hits = <<>> THEN <<>>
        ELSE LET row == hits[1]
                 made == Message(row.groupId, row.from, row.to, row.body, row.threadId,
                                 OrElse(row.subject, Undefined))
             IN  <<[made.message EXCEPT !.messageId = row.messageId]>>

\* DatabaseService.getMessage: a Message is constructed from the row, then its
\* messageid and createdAt are set from the row.  Column to_agents holds
\* JSON.stringify(to), which JSON.parse gives back unchanged for an array of
\* strings.
getMessage(db, threadId, messageId) ==
    LET hits == SelectSeq(db.messages,
                    LAMBDA row : row.threadId = threadId /\ row.messageId = messageId)
    IN  IF hits = <<>> THEN <<>>
        ELSE LET row == hits[1]
                 made == Message(row.groupId, row.from, row.to, row.body, row.threadId,
                                 OrElse(row.subject, Undefined))
             IN  <<[made.message EXCEPT !.messageId = row.messageId,
                                        !.createdAt = row.createdAt]>>

\* rows.map(row => this.getMessage(...)).filter(m => m !== null), for the rows a
\* SELECT returned
Fetch(db, rows) ==
    LET got == [i \in 1..Len(rows) |-> getMessage(db, rows[i].threadId, rows[i].messageId)]
        kept == SelectSeq(got, LAMBDA m : m # <<>>)
    IN  [i \in 1..Len(kept) |-> kept[i][1]]

\* DatabaseService.listMessagesByThread: ORDER BY id ASC
listMessagesByThread(db, threadId) ==
    Fetch(db, SelectSeq(db.messages, LAMBDA row : row.threadId = threadId))

\* LIMIT ? is part of the statement when limit is a number > 0
Limited(rows, limit) == IF limit > 0 THEN Take(rows, limit) ELSE rows

\* DatabaseService.listGroups
listGroups(db) == DOMAIN db.groups

\* DatabaseService.listMessagesByGroup: ORDER BY id DESC LIMIT ?
listMessagesByGroup(db, groupId, limit) ==
    Fetch(db, Limited(Reverse(SelectSeq(db.messages,
                                LAMBDA row : row.groupId = groupId)), limit))

\* the group left out of the WHERE clause
findMessagesByIdAnyGroup(db, messageId, groupId) ==
    Fetch(db, Reverse(SelectSeq(db.messages, LAMBDA row : row.messageId = messageId)))

\* DatabaseService.findMessagesById: ORDER BY id DESC, within groupId when given
findMessagesById(db, messageId, groupId) ==
    Fetch(db, Reverse(SelectSeq(db.messages,
                LAMBDA row : /\ row.messageId = messageId
                             /\ Falsy(groupId) \/ row.groupId = groupId)))

\* DatabaseService.listMessagesByAgent: WHERE from_agent = ?
listMessagesByAgent(db, agent, groupId, limit) ==
    Fetch(db, Limited(Reverse(SelectSeq(db.messages,
                LAMBDA row : /\ row.from = agent
                             /\ Falsy(groupId) \/ row.groupId = groupId)), limit))

\* messages m, json_each(m.to_agents) WHERE json_each.value = agent: one joined
\* row per occurrence of agent in the recipient list of m
RECURSIVE JoinRecipients(_, _)
JoinRecipients(rows, agent) ==
    IF rows = <<>> THEN <<>>
    ELSE LET row == Head(rows)
             hits == SelectSeq(row.to, LAMBDA addr : addr = agent)
         IN  [i \in 1..Len(hits) |->
                    [threadId |-> row.threadId, messageId |-> row.messageId]]
                \o JoinRecipients(Tail(rows), agent)

\* the query without DISTINCT
listMessagesForAgentDuplicates(db, agent, groupId, limit) ==
    Fetch(db, Limited(JoinRecipients(
                Reverse(SelectSeq(db.messages,
                    LAMBDA row : Falsy(groupId) \/ row.groupId = groupId)), agent), limit))

\* DatabaseService.listMessagesForAgent: SELECT DISTINCT thread_id, message_id
\* over the join, ORDER BY m.id DESC LIMIT ?
listMessagesForAgent(db, agent, groupId, limit) ==
    Fetch(db, Limited(Dedup(JoinRecipients(
                Reverse(SelectSeq(db.messages,
                    LAMBDA row : Falsy(groupId) \/ row.groupId = groupId)), agent)), limit))

-----------------------------------------------------------------------------
(* src/src/app.ts: helpers *)

\* normalizeRecipients: trimmed, blank entries dropped; a string is a list of one
normalizeRecipients(raw) ==
    IF raw.isArray
    THEN LET kept == SelectSeq(raw.val, LAMBDA v : Trim(v) # <<>>)
         IN  [i \in 1..Len(kept) |-> Trim(kept[i])]
    ELSE IF raw.val # Undefined /\ Trim(raw.val) # <<>> THEN <<Trim(raw.val)>>
    ELSE <<>>

\* lastIndex + 1 on the string: "0" + 1 is "01"
nextMessageIdConcat(thread) == thread.lastIndex \o <<"1">>

\* the number of the thread's messages taken for the next identifier
nextMessageIdOffByOne(thread) ==
    ToStr(Len(SelectSeq(messages, LAMBDA row : row.threadId = thread.threadId)) + 1)

\* nextMessageId: parseInt(lastIndex) + 1, "0" when that is NaN
nextMessageId(thread) ==
    LET parsed == ParseInt(thread.lastIndex)
    IN  IF parsed = <<>> THEN <<"0">> ELSE ToStr(parsed[1] + 1)

\* /^re:/i.test(s)
StartsWithRe(s) ==
    /\ Len(s) >= 3
    /\ s[1] \in {"r", "R"}
    /\ s[2] \in {"e", "E"}
    /\ s[3] = ":"

\* the prefix added without looking for one
replySubjectAlwaysPrefixed(subject) ==
    IF Falsy(subject) \/ Trim(subject) = <<>>
    THEN <<"R", "e", ":", " ">> \o DEFAULT_SUBJECT
    ELSE <<"R", "e", ":", " ">> \o Trim(subject)

\* /^re:/ without the i flag
replySubjectCaseSensitive(subject) ==
    IF Falsy(subject) \/ Trim(subject) = <<>>
    THEN <<"R", "e", ":", " ">> \o DEFAULT_SUBJECT
    ELSE LET trimmed == Trim(subject)
         IN  IF Len(trimmed) >= 3 /\ SubSeq(trimmed, 1, 3) = <<"r", "e", ":">>
             THEN trimmed
             ELSE <<"R", "e", ":", " ">> \o trimmed

\* replySubject
replySubject(subject) ==
    IF Falsy(subject) \/ Trim(subject) = <<>>
    THEN <<"R", "e", ":", " ">> \o DEFAULT_SUBJECT
    ELSE LET trimmed == Trim(subject)
         IN  IF StartsWithRe(trimmed) THEN trimmed
             ELSE <<"R", "e", ":", " ">> \o trimmed

\* the stored roster replaced by an empty one
ensureGroupOverwrite(db, groupId, fault) ==
    [threw |-> FALSE,
     db |-> [db EXCEPT !.groups =
                (groupId :> [agents |-> {}])
                @@ [h \in DOMAIN db.groups \ {groupId} |-> db.groups[h]]],
     group |-> [agents |-> {}]]

\* ensureGroup: get, or create with an empty roster
ensureGroup(db, groupId, fault) ==
    LET found == getGroup(db, groupId)
    IN  IF found # <<>>
        THEN [threw |-> FALSE, db |-> db, group |-> found[1]]
        ELSE LET made == createGroup(db, groupId, {}, fault)
             IN  [threw |-> made.threw, db |-> made.db, group |-> [agents |-> {}]]

\* parseLimit: a positive integer, else DEFAULT_LIMIT
parseLimit(raw) ==
    LET parsed == ToNumber(raw)
    IN  IF parsed # <<>> /\ parsed[1].int /\ parsed[1].val > 0
        THEN parsed[1].val ELSE DEFAULT_LIMIT

\* one of several groups picked
resolveGroupIdAnyGroup(db, groupId) ==
    IF ~Falsy(groupId)
    THEN IF getGroup(db, groupId) = <<>>
         THEN [groupId |-> <<>>, status |-> 404, kind |-> "group_not_found"]
         ELSE [groupId |-> <<groupId>>, status |-> 200, kind |-> "ok"]
    ELSE LET all == listGroups(db)
         IN  IF all = {}
             THEN [groupId |-> <<>>, status |-> 404, kind |-> "no_groups"]
             ELSE [groupId |-> <<CHOOSE g \in all : TRUE>>, status |-> 200, kind |-> "ok"]

\* resolveGroupId: the group the query names if it exists, else the only group
\* there is; groupId is <<>> when the helper has answered the request itself
resolveGroupId(db, groupId) ==
    IF ~Falsy(groupId)
    THEN IF getGroup(db, groupId) = <<>>
         THEN [groupId |-> <<>>, status |-> 404, kind |-> "group_not_found"]
         ELSE [groupId |-> <<groupId>>, status |-> 200, kind |-> "ok"]
    ELSE LET all == listGroups(db)
         IN  IF all = {}
             THEN [groupId |-> <<>>, status |-> 404, kind |-> "no_groups"]
             ELSE IF Cardinality(all) = 1
             THEN [groupId |-> <<CHOOSE g \in all : TRUE>>, status |-> 200, kind |-> "ok"]
             ELSE [groupId |-> <<>>, status |-> 400, kind |-> "multiple_groups"]

\* serializeMessage
serializeMessage(message) ==
    [messageId |-> message.messageId, threadId |-> message.threadId,
     groupId |-> message.groupId, from |-> message.from, to |-> message.to,
     subject |-> message.subject, body |-> message.body,
     createdAt |-> message.createdAt]

\* the preview followed by an ellipsis when the body was cut
serializeShortMessageEllipsis(message) ==
    [messageId |-> message.messageId, threadId |-> message.threadId,
     groupId |-> message.groupId, from |-> message.from,
     subject |-> message.subject,
     bodyPreview |-> IF Len(message.body) > BODY_PREVIEW_LENGTH
                     THEN Take(message.body, BODY_PREVIEW_LENGTH) \o <<".", ".", ".">>
                     ELSE message.body,
     createdAt |-> message.createdAt]

\* serializeShortMessage: body.slice(0, BODY_PREVIEW_LENGTH)
serializeShortMessage(message) ==
    [messageId |-> message.messageId, threadId |-> message.threadId,
     groupId |-> message.groupId, from |-> message.from,
     subject |-> message.subject,
     bodyPreview |-> Take(message.body, BODY_PREVIEW_LENGTH),
     createdAt |-> message.createdAt]

\* only the first recipient looked at
invalidAgentsFirstOnly(agents, group) ==
    SelectSeq(SubSeq(agents, 1, 1), LAMBDA agent : agent \notin group.agents)

\* validateAgents(...).invalidAgents
invalidAgents(agents, group) ==
    SelectSeq(agents, LAMBDA agent : agent \notin group.agents)

-----------------------------------------------------------------------------
(* Requests and responses *)

\* no request in flight: the clock has not been read yet
NoReq == [op |-> "none", at |-> Time(0)]
NoResp == [op |-> "none"]

WriteReq(groupId, from, to, subject, body) ==
    [op |-> "write", groupId |-> groupId, from |-> from, to |-> to,
     subject |-> subject, body |-> body,
     threadId |-> Undefined, replyToMessageId |-> Undefined, at |-> Time(1)]

ReplyReq(op, groupId, threadId, replyToMessageId, from, body) ==
    [op |-> op, groupId |-> groupId, from |-> from, to |-> Str(Undefined),
     subject |-> Undefined, body |-> body,
     threadId |-> threadId, replyToMessageId |-> replyToMessageId, at |-> Time(1)]

\* a response without data: status and which branch of the handler answered
Answer(op, status, kind) ==
    [op |-> op, status |-> status, kind |-> kind, invalid |-> <<>>,
     messageId |-> Undefined, threadId |-> Undefined, newThreadCreated |-> FALSE]

\* the 201 of the three sending handlers
Sent(op, message, newThreadCreated) ==
    [Answer(op, 201, "sent") EXCEPT
        !.messageId = message.messageId,
        !.threadId = message.threadId,
        !.newThreadCreated = newThreadCreated]

\* a request of one of the reading routes: the route parameter and the query
ReadReq(op, groupId, threadId, messageId, agentAddress, limit) ==
    [op |-> op, groupId |-> groupId, threadId |-> threadId, messageId |-> messageId,
     agentAddress |-> agentAddress, limit |-> limit, at |-> Time(2)]

\* the response of a reading route
Data(op, status, kind, data) ==
    [op |-> op, status |-> status, kind |-> kind, data |-> data]

\* what a handler leaves behind: the tables and the response
Outcome(db, response) == [db |-> db, resp |-> response]

Internal(op) == Answer(op, 500, "internal")

-----------------------------------------------------------------------------
(* src/src/app.ts: the handlers, as functions of the request and of the    *)
(* storage call that throws (fault = "none": none does)                    *)

\* POST /emails/write
postEmailsWrite(r, fault) ==
    IF Falsy(r.groupId) \/ Falsy(r.from) \/ ToFalsy(r.to) \/ Falsy(r.body)
    THEN Outcome(Tables, Answer("write", 400, "missing_fields"))
    ELSE
    LET recipients == normalizeRecipients(r.to) IN
    IF recipients = <<>>
    THEN Outcome(Tables, Answer("write", 400, "empty_recipients"))
    ELSE IF ~dbOpen THEN Outcome(Tables, Internal("write"))
    ELSE
    LET ensured == ensureGroup(Tables, r.groupId, fault) IN
    IF ensured.threw THEN Outcome(ensured.db, Internal("write"))
    ELSE IF r.from \notin ensured.group.agents
    THEN Outcome(ensured.db,
            [Answer("write", 400, "invalid_sender") EXCEPT !.invalid = <<r.from>>])
    ELSE
    LET invalid == invalidAgents(recipients, ensured.group) IN
    IF invalid # <<>>
    THEN Outcome(ensured.db,
            [Answer("write", 400, "invalid_recipients") EXCEPT !.invalid = invalid])
    ELSE
    LET made == Message(r.groupId, r.from, recipients, r.body, Undefined,
                        Coalesce(r.subject, DEFAULT_SUBJECT))
    IN
    IF made.spawnedThread = <<>>
    THEN Outcome(ensured.db, Answer("write", 500, "no_thread"))
    ELSE
    LET threadMade == createThread(ensured.db, made.spawnedThread[1], fault) IN
    IF threadMade.threw THEN Outcome(threadMade.db, Internal("write"))
    ELSE
    LET stored == createMessage(threadMade.db, made.message, fault) IN
    IF stored.threw THEN Outcome(stored.db, Internal("write"))
    ELSE Outcome(stored.db, Sent("write", made.message, TRUE))

\* replyToMessageId ignored
targetMessageLatest(db, threadId, replyToMessageId) ==
    LET all == listMessagesByThread(db, threadId)
    IN  IF all = <<>> THEN <<>> ELSE <<all[Len(all)]>>

\* the reply target: the message replyToMessageId names, else the thread's last one
targetMessage(db, threadId, replyToMessageId) ==
    IF ~Falsy(replyToMessageId)
    THEN getMessage(db, threadId, replyToMessageId)
    ELSE LET all == listMessagesByThread(db, threadId)
         IN  IF all = <<>> THEN <<>> ELSE <<all[Len(all)]>>

\* the filter left out
replyRecipientsUnfiltered(target, from) == <<target.from>>

\* POST /emails/reply: [targetMessage.from].filter(addr => addr !== from)
replyRecipients(target, from) ==
    SelectSeq(<<target.from>>, LAMBDA addr : addr # from)

\* an array in place of the Set
replyAllRecipientsArray(target, from) ==
    SelectSeq(<<target.from>> \o target.to, LAMBDA addr : addr # from)

\* POST /emails/reply-all: the Set of target.from and target.to, from deleted
replyAllRecipients(target, from) ==
    SelectSeq(Dedup(<<target.from>> \o target.to), LAMBDA addr : addr # from)

\* POST /emails/reply and POST /emails/reply-all: the two handlers differ in the
\* recipients they derive from the target
appendReply(op, r, fault) ==
    IF Falsy(r.from) \/ Falsy(r.threadId) \/ Falsy(r.body)
    THEN Outcome(Tables, Answer(op, 400, "missing_fields"))
    ELSE IF ~dbOpen THEN Outcome(Tables, Internal(op))
    ELSE
    LET found == getThread(Tables, r.threadId) IN
    IF found = <<>> THEN Outcome(Tables, Answer(op, 404, "thread_not_found"))
    ELSE
    LET thread == found[1] IN
    IF ~Falsy(r.groupId) /\ r.groupId # thread.groupId
    THEN Outcome(Tables, Answer(op, 400, "group_mismatch"))
    ELSE
    LET ensured == ensureGroup(Tables, thread.groupId, fault) IN
    IF ensured.threw THEN Outcome(ensured.db, Internal(op))
    ELSE IF r.from \notin ensured.group.agents
    THEN Outcome(ensured.db,
            [Answer(op, 400, "invalid_sender") EXCEPT !.invalid = <<r.from>>])
    ELSE
    LET target == targetMessage(ensured.db, r.threadId, r.replyToMessageId) IN
    IF target = <<>> THEN Outcome(ensured.db, Answer(op, 404, "message_not_found"))
    ELSE
    LET recipients == IF op = "reply" THEN replyRecipients(target[1], r.from)
                      ELSE replyAllRecipients(target[1], r.from)
    IN
    IF recipients = <<>> THEN Outcome(ensured.db, Answer(op, 400, "no_recipients"))
    ELSE
    LET made == Message(thread.groupId, r.from, recipients, r.body, r.threadId,
                        replySubject(thread.subject))
        message == [made.message EXCEPT !.messageId = nextMessageId(thread)]
        stored == createMessage(ensured.db, message, fault)
    IN
    IF stored.threw THEN Outcome(stored.db, Internal(op))
    ELSE Outcome(stored.db, Sent(op, message, FALSE))

\* DatabaseService.deleteAllMessages, deleteAllThreads, deleteAllGroups.  The
\* foreign keys are declared ON DELETE CASCADE and foreign_keys is ON, so a
\* deleted thread takes its messages with it and a deleted group its threads
\* and messages.
deleteAllMessages(db) == [db EXCEPT !.messages = <<>>]

deleteAllThreads(db) ==
    [db EXCEPT !.threads = <<>>,
               !.messages = SelectSeq(db.messages,
                                LAMBDA m : m.threadId \notin DOMAIN db.threads)]

deleteAllGroups(db) ==
    LET kept == {t \in DOMAIN db.threads : db.threads[t].groupId \notin DOMAIN db.groups}
    IN  [db EXCEPT !.groups = <<>>,
                   !.threads = [t \in kept |-> db.threads[t]],
                   !.messages = SelectSeq(db.messages,
                                    LAMBDA m : /\ m.groupId \notin DOMAIN db.groups
                                               /\ m.threadId \in kept)]

\* the deletes issued groups first
resetStepsGroupsFirst(db) ==
    LET first == deleteAllGroups(db)
        second == deleteAllThreads(first)
        third == deleteAllMessages(second)
    IN  <<first, second, third>>

\* the three deletes of POST /admin/reset, as the tables after each of them
resetSteps(db) ==
    LET first == deleteAllMessages(db)
        second == deleteAllThreads(first)
        third == deleteAllGroups(second)
    IN  <<first, second, third>>

\* POST /admin/reset: the three deletes, then close(); on a closed connection the
\* first delete throws
postAdminReset ==
    IF ~dbOpen THEN [db |-> Tables, resp |-> Internal("reset"), closed |-> FALSE]
    ELSE [db |-> resetSteps(Tables)[3],
          resp |-> Answer("reset", 200, "reset"), closed |-> TRUE]

\* the groupId of the request not compared with the thread's
postEmailsReplyAnyGroup(r, fault) ==
    appendReply("reply", [r EXCEPT !.groupId = Undefined], fault)

postEmailsReply(r, fault) == appendReply("reply", r, fault)

postEmailsReplyAll(r, fault) == appendReply("reply-all", r, fault)

\* the messages of GET /inbox and GET /inbox/short: those sent to agentAddress
\* when the query names one, else those of the group
inboxMessages(r, groupId) ==
    IF ~Falsy(r.agentAddress)
    THEN listMessagesForAgent(Tables, r.agentAddress, groupId, parseLimit(r.limit))
    ELSE listMessagesByGroup(Tables, groupId, parseLimit(r.limit))

\* GET /inbox/short
getInboxShort(r) ==
    IF ~dbOpen THEN Data("inbox-short", 500, "internal", <<>>)
    ELSE
    LET resolved == resolveGroupId(Tables, r.groupId) IN
    IF resolved.groupId = <<>>
    THEN Data("inbox-short", resolved.status, resolved.kind, <<>>)
    ELSE LET found == inboxMessages(r, resolved.groupId[1])
         IN  Data("inbox-short", 200, "ok",
                  [i \in 1..Len(found) |-> serializeShortMessage(found[i])])

\* GET /inbox
getInbox(r) ==
    IF ~dbOpen THEN Data("inbox", 500, "internal", <<>>)
    ELSE
    LET resolved == resolveGroupId(Tables, r.groupId) IN
    IF resolved.groupId = <<>>
    THEN Data("inbox", resolved.status, resolved.kind, <<>>)
    ELSE LET found == inboxMessages(r, resolved.groupId[1])
         IN  Data("inbox", 200, "ok",
                  [i \in 1..Len(found) |-> serializeMessage(found[i])])

\* GET /messages/:messageId
getMessageById(r) ==
    IF ~dbOpen THEN Data("get-message", 500, "internal", <<>>)
    ELSE IF ~Falsy(r.groupId) /\ getGroup(Tables, r.groupId) = <<>>
    THEN Data("get-message", 404, "group_not_found", <<>>)
    ELSE IF ~Falsy(r.threadId)
    THEN LET message == getMessage(Tables, r.threadId, r.messageId)
         IN  IF message = <<>>
             THEN Data("get-message", 404, "message_not_found", <<>>)
             ELSE Data("get-message", 200, "ok", serializeMessage(message[1]))
    ELSE
    LET matches == findMessagesById(Tables, r.messageId, r.groupId) IN
    IF Len(matches) = 0 THEN Data("get-message", 404, "message_not_found", <<>>)
    ELSE IF Len(matches) > 1
    THEN Data("get-message", 400, "ambiguous",
              [i \in 1..Len(matches) |->
                    [threadId |-> matches[i].threadId, groupId |-> matches[i].groupId]])
    ELSE Data("get-message", 200, "ok", serializeMessage(matches[1]))

\* the thread not looked up
getThreadByIdUnchecked(r) ==
    IF ~dbOpen THEN Data("get-thread", 500, "internal", <<>>)
    ELSE LET found == listMessagesByThread(Tables, r.threadId)
         IN  Data("get-thread", 200, "ok",
                  [thread |-> getThread(Tables, r.threadId),
                   messages |-> [i \in 1..Len(found) |-> serializeMessage(found[i])]])

\* GET /threads/:threadId
getThreadById(r) ==
    IF ~dbOpen THEN Data("get-thread", 500, "internal", <<>>)
    ELSE
    LET thread == getThread(Tables, r.threadId) IN
    IF thread = <<>> THEN Data("get-thread", 404, "thread_not_found", <<>>)
    ELSE LET found == listMessagesByThread(Tables, r.threadId)
         IN  Data("get-thread", 200, "ok",
                  [thread |-> thread[1],
                   messages |-> [i \in 1..Len(found) |-> serializeMessage(found[i])]])

\* GET /messages/by-name/:agentAddress
getMessagesByName(r) ==
    IF ~dbOpen THEN Data("by-name", 500, "internal", <<>>)
    ELSE IF ~Falsy(r.groupId) /\ getGroup(Tables, r.groupId) = <<>>
    THEN Data("by-name", 404, "group_not_found", <<>>)
    ELSE LET found == listMessagesByAgent(Tables, r.agentAddress, r.groupId,
                                          parseLimit(r.limit))
         IN  Data("by-name", 200, "ok",
                  [i \in 1..Len(found) |-> serializeMessage(found[i])])

-----------------------------------------------------------------------------
(* The inputs the environment draws from *)

\* the rosters the setup wizard is given
WizardInputs ==
    {[groupId |-> GroupG, agents |-> {Alice, Bob, Carol}],
     [groupId |-> GroupH, agents |-> {Alice, Bob}]}

\* Dave is on no roster
SenderInputs == {Alice, Bob, Dave}

\* "to" values that name somebody: a string, an array to be trimmed, an array
\* with a repeated address, an array with an address on no roster
RecipientInputs ==
    {Str(Bob), Arr(<<<<" ", "b">>, <<"c", " ">>>>), Arr(<<Alice, Alice>>),
     Arr(<<Bob, Dave>>)}

\* "to" values that name nobody
EmptyRecipientInputs == {Str(Undefined), Str(<<>>), Arr(<<>>), Arr(<<<<" ">>, <<>>>>)}

Hi == <<"H", "i">>
Text == <<"x">>

ThreadIdInputs == {Uuid(n) : n \in 1..MaxThreads}

ReplyToInputs == {Undefined} \cup {ToStr(n) : n \in 0..(MaxRows - 1)}

\* every group, sender and recipient list; and the requests that lack one field
WriteRequests ==
    {WriteReq(g, f, t, Hi, Text) :
        g \in {GroupG, GroupH}, f \in SenderInputs, t \in RecipientInputs}
    \cup {WriteReq(GroupG, Alice, t, Hi, Text) : t \in EmptyRecipientInputs}
    \cup {WriteReq(g, Alice, Str(Bob), Hi, Text) : g \in {Undefined, <<>>}}
    \cup {WriteReq(GroupG, f, Str(Bob), Hi, Text) : f \in {Undefined, <<>>}}
    \cup {WriteReq(GroupG, Alice, Str(Bob), Hi, b) : b \in {Undefined, <<>>}}
    \cup {WriteReq(GroupG, Alice, Str(Bob), s, Text) : s \in {Undefined, <<>>}}

\* every thread, target and sender; the requests that name a group; and the
\* requests that lack one field
ReplyRequests ==
    {ReplyReq(op, Undefined, t, m, f, Text) :
        op \in {"reply", "reply-all"}, t \in ThreadIdInputs,
        m \in ReplyToInputs, f \in SenderInputs}
    \cup {ReplyReq(op, g, t, Undefined, Alice, Text) :
            op \in {"reply", "reply-all"}, g \in {GroupG, GroupH}, t \in ThreadIdInputs}
    \cup {ReplyReq(op, Undefined, Undefined, Undefined, Alice, Text) :
            op \in {"reply", "reply-all"}}
    \cup {ReplyReq(op, Undefined, Uuid(1), Undefined, Undefined, Text) :
            op \in {"reply", "reply-all"}}
    \cup {ReplyReq(op, Undefined, Uuid(1), Undefined, Alice, Undefined) :
            op \in {"reply", "reply-all"}}

ResetReq ==
    [op |-> "reset", groupId |-> Undefined, from |-> Undefined, to |-> Str(Undefined),
     subject |-> Undefined, body |-> Undefined,
     threadId |-> Undefined, replyToMessageId |-> Undefined, at |-> Time(1)]

Requests == WriteRequests \cup ReplyRequests \cup {ResetReq}

\* the requests sent to the program whose storage calls can throw: they all pass
\* validation when their group and thread exist; one of them carries body: true
FaultRequests ==
    {WriteReq(GroupG, f, Str(Bob), Hi, Text) : f \in {Alice, Bob}}
    \cup {WriteReq(GroupH, Alice, Str(Bob), Hi, Text)}
    \cup {ReplyReq(op, Undefined, t, m, f, Text) :
            op \in {"reply", "reply-all"}, t \in ThreadIdInputs,
            m \in {Undefined, <<"0">>}, f \in {Alice, Bob}}
    \cup {WriteReq(GroupG, Alice, Str(Bob), Hi, JsTrue)}
    \cup {ResetReq}

\* a group no wizard creates
GroupZ == <<"@", "z">>

\* GET /messages/:messageId, with and without threadId and groupId in the query
GetMessageRequests ==
    {ReadReq("get-message", g, Undefined, m, Undefined, Undefined) :
        g \in {Undefined, GroupG, GroupH}, m \in {<<"0">>, <<"1">>}}
    \cup {ReadReq("get-message", g, t, <<"0">>, Undefined, Undefined) :
            g \in {Undefined, GroupH}, t \in ThreadIdInputs}
    \cup {ReadReq("get-message", Undefined, Uuid(1), <<"1">>, Undefined, Undefined),
          ReadReq("get-message", GroupZ, Undefined, <<"0">>, Undefined, Undefined)}

GetThreadRequests ==
    {ReadReq("get-thread", Undefined, t, Undefined, Undefined, Undefined) :
        t \in ThreadIdInputs}

ByNameRequests ==
    {ReadReq("by-name", g, Undefined, Undefined, a, Undefined) :
        g \in {Undefined, GroupG}, a \in {Alice, Bob}}
    \cup {ReadReq("by-name", GroupZ, Undefined, Undefined, Alice, Undefined)}

InboxRequests ==
    {ReadReq(op, Undefined, Undefined, Undefined, Undefined, Undefined) :
        op \in {"inbox", "inbox-short"}}
    \cup {ReadReq("inbox", GroupG, Undefined, Undefined, Bob, <<"1">>)}

ReadRequests ==
    GetMessageRequests \cup GetThreadRequests \cup ByNameRequests \cup InboxRequests

\* the letters of a drawn subject: a blank, the letters of "re:" in both cases,
\* and another letter
SubjectChars == {" ", "r", "E", ":", "x"}

SubjectInputs ==
    {Undefined} \cup UNION {[1..n -> SubjectChars] : n \in 0..MaxSubject}

\* a body of n characters, each telling its position
BodyOf(n) == [i \in 1..n |-> Digits[(i % 10) + 1]]

\* the lengths of the drawn bodies: short ones, and those around the length of
\* the preview
BodyLengths == {1, 2} \cup ((BODY_PREVIEW_LENGTH - 2)..MaxBody)

\* the requests that open the one thread of SpecThread: every subject, and every
\* length of body
OpeningRequests ==
    {WriteReq(GroupG, Alice, Str(Bob), s, Text) : s \in SubjectInputs}
    \cup {WriteReq(GroupG, Alice, Str(Bob), Hi, BodyOf(n)) : n \in BodyLengths}

\* what is then asked of that thread
ThreadRequests ==
    {ReplyReq(op, Undefined, Uuid(1), Undefined, Bob, Text) :
        op \in {"reply", "reply-all"}}

ThreadReadRequests ==
    {ReadReq("inbox-short", Undefined, Undefined, Undefined, Undefined, Undefined),
     ReadReq("get-thread", Undefined, Uuid(1), Undefined, Undefined, Undefined)}

\* the requests that fill the tables of SpecInbox: new threads in both groups,
\* and the replies that make the first thread long
BulkRequests ==
    {WriteReq(GroupG, Alice, Arr(<<Bob, Bob>>), Hi, Text),
     WriteReq(GroupH, Alice, Str(Bob), Hi, Text)}
    \cup {ReplyReq("reply", Undefined, Uuid(1), Undefined, f, Text) : f \in {Alice, Bob}}

\* numOfRecentEmails / limit of the query: absent, empty, zero, negative, not an
\* integer, not a number, and positive integers
LimitInputs ==
    {Undefined, <<>>, <<"0">>, <<"-", "1">>, <<"1", ".", "5">>, <<"a", "b", "c">>,
     <<"1">>, <<"2">>, ToStr(MaxInbox)}

InboxReadRequests ==
    {ReadReq("inbox", GroupG, Undefined, Undefined, Undefined, l) : l \in LimitInputs}
    \cup {ReadReq("inbox", GroupG, Undefined, Undefined, a, l) :
            a \in {Alice, Bob}, l \in {Undefined, <<"2">>}}
    \cup {ReadReq("inbox-short", g, Undefined, Undefined, a, Undefined) :
            g \in {Undefined, GroupH}, a \in {Undefined, Bob}}

-----------------------------------------------------------------------------
(* The state machine *)

\* a fresh database (initDatabase) behind a fresh app (createApp)
Init ==
    /\ groups = <<>>
    /\ threads = <<>>
    /\ messages = <<>>
    /\ dbOpen = TRUE
    /\ req = NoReq
    /\ resp = NoResp

Idle == req = NoReq /\ resp = NoResp

\* runWizard at process start: the group the operator types in is created
RunWizard(w) ==
    /\ Idle
    /\ dbOpen
    /\ LET made == createGroup(Tables, w.groupId, w.agents, "none")
       IN  /\ ~made.threw
           /\ groups' = made.db.groups
    /\ UNCHANGED <<threads, messages, dbOpen, req, resp>>

\* a request arrives
Receive(r) ==
    /\ Idle
    /\ Len(messages) < MaxRows
    /\ r.op = "write" => Cardinality(DOMAIN threads) < MaxThreads
    /\ req' = r
    /\ UNCHANGED <<groups, threads, messages, dbOpen, resp>>

\* the first write request arrives
ReceiveOpening ==
    /\ Idle
    /\ threads = <<>>
    /\ \E r \in OpeningRequests : req' = r
    /\ UNCHANGED <<groups, threads, messages, dbOpen, resp>>

\* a request that fills the tables of SpecInbox arrives
ReceiveBulk(r) ==
    /\ Idle
    /\ Len(messages) < MaxInbox
    /\ r.op = "write" => Cardinality(DOMAIN threads) < MaxThreads
    /\ req' = r
    /\ UNCHANGED <<groups, threads, messages, dbOpen, resp>>

\* the handler's outcome becomes the state
Commit(o) ==
    /\ groups' = o.db.groups
    /\ threads' = o.db.threads
    /\ messages' = o.db.messages
    /\ resp' = o.resp
    /\ req' = NoReq
    /\ UNCHANGED dbOpen

HandleWrite == req.op = "write" /\ Commit(postEmailsWrite(req, "none"))

HandleReply == req.op = "reply" /\ Commit(postEmailsReply(req, "none"))

HandleReplyAll == req.op = "reply-all" /\ Commit(postEmailsReplyAll(req, "none"))

\* /admin/reset empties the tables and closes the connection
HandleReset ==
    /\ req.op = "reset"
    /\ LET o == postAdminReset
       IN  /\ groups' = o.db.groups
           /\ threads' = o.db.threads
           /\ messages' = o.db.messages
           /\ resp' = o.resp
           /\ dbOpen' = (dbOpen /\ ~o.closed)
    /\ req' = NoReq

\* process.exit after the reset, and the next start: initDatabase opens a new file
Restart ==
    /\ Idle
    /\ ~dbOpen
    /\ dbOpen' = TRUE
    /\ UNCHANGED <<groups, threads, messages, req, resp>>

\* a handler during which one storage call throws
HandleWriteFault ==
    /\ req.op = "write"
    /\ \E f \in FaultPoints : Commit(postEmailsWrite(req, f))

HandleReplyFault ==
    /\ req.op = "reply"
    /\ \E f \in FaultPoints : Commit(postEmailsReply(req, f))

HandleReplyAllFault ==
    /\ req.op = "reply-all"
    /\ \E f \in FaultPoints : Commit(postEmailsReplyAll(req, f))

\* a request of a reading route arrives
ReceiveRead(r) ==
    /\ Idle
    /\ req' = r
    /\ UNCHANGED <<groups, threads, messages, dbOpen, resp>>

\* a reading route answers and leaves the tables alone
Answers(response) ==
    /\ resp' = response
    /\ req' = NoReq
    /\ UNCHANGED <<groups, threads, messages, dbOpen>>

HandleInboxShort == req.op = "inbox-short" /\ Answers(getInboxShort(req))

HandleInbox == req.op = "inbox" /\ Answers(getInbox(req))

HandleGetMessage == req.op = "get-message" /\ Answers(getMessageById(req))

HandleGetThread == req.op = "get-thread" /\ Answers(getThreadById(req))

HandleByName == req.op = "by-name" /\ Answers(getMessagesByName(req))

\* the response leaves the server
Deliver ==
    /\ resp # NoResp
    /\ resp' = NoResp
    /\ UNCHANGED <<groups, threads, messages, dbOpen, req>>

Next ==
    \/ \E w \in WizardInputs : RunWizard(w)
    \/ \E r \in Requests : Receive(r)
    \/ HandleWrite
    \/ HandleReply
    \/ HandleReplyAll
    \/ HandleReset
    \/ Restart
    \/ Deliver

Spec == Init /\ [][Next]_vars

\* the same program over a storage layer whose calls can throw
NextFault ==
    \/ \E w \in WizardInputs : RunWizard(w)
    \/ \E r \in FaultRequests : Receive(r)
    \/ HandleWrite
    \/ HandleReply
    \/ HandleReplyAll
    \/ HandleReset
    \/ Restart
    \/ Deliver
    \/ HandleWriteFault
    \/ HandleReplyFault
    \/ HandleReplyAllFault

SpecFault == Init /\ [][NextFault]_vars

\* the program with its reading routes
NextRead ==
    \/ \E w \in WizardInputs : RunWizard(w)
    \/ \E r \in FaultRequests : Receive(r)
    \/ \E r \in ReadRequests : ReceiveRead(r)
    \/ HandleWrite
    \/ HandleReply
    \/ HandleReplyAll
    \/ HandleReset
    \/ Restart
    \/ HandleInboxShort
    \/ HandleInbox
    \/ HandleGetMessage
    \/ HandleGetThread
    \/ HandleByName
    \/ Deliver

SpecRead == Init /\ [][NextRead]_vars

\* one thread, opened with any subject and any length of body, then answered
\* and read
NextThread ==
    \/ \E w \in {v \in WizardInputs : v.groupId = GroupG} : RunWizard(w)
    \/ ReceiveOpening
    \/ \E r \in ThreadRequests : Receive(r)
    \/ \E r \in ThreadReadRequests : ReceiveRead(r)
    \/ HandleWrite
    \/ HandleReply
    \/ HandleReplyAll
    \/ HandleInboxShort
    \/ HandleGetThread
    \/ Deliver

SpecThread == Init /\ [][NextThread]_vars

\* a long first thread next to short ones, and the inbox routes
NextInbox ==
    \/ \E w \in WizardInputs : RunWizard(w)
    \/ \E r \in BulkRequests : ReceiveBulk(r)
    \/ \E r \in InboxReadRequests : ReceiveRead(r)
    \/ HandleWrite
    \/ HandleReply
    \/ HandleInbox
    \/ HandleInboxShort
    \/ Deliver

SpecInbox == Init /\ [][NextInbox]_vars

-----------------------------------------------------------------------------
(* Claims *)

\* the thread identifiers the tables mention
KnownThreads == DOMAIN threads \cup {messages[i].threadId : i \in 1..Len(messages)}

\* C1: for every thread, the message identifiers that listMessagesByThread returns,
\* in creation order, are "0", "1", ..., "n-1": no gap, no repeat, increasing.
C1_SequentialIds ==
    \A t \in KnownThreads :
        LET all == listMessagesByThread(Tables, t)
        IN  \A i \in 1..Len(all) : all[i].messageId = ToStr(i - 1)

\* a thread of three messages, the last one just appended by a reply
C1_Witness ==
    /\ resp # NoResp
    /\ resp.status = 201
    /\ resp.op = "reply"
    /\ Len(listMessagesByThread(Tables, resp.threadId)) = 3

\* C2: every thread's lastIndex is the messageId of the message appended last to
\* it, which is the largest messageId of the thread ("0" for a thread without
\* messages).
C2_LastIndexIsLatest ==
    \A t \in DOMAIN threads :
        LET all == listMessagesByThread(Tables, t)
        IN  IF all = <<>> THEN threads[t].lastIndex = <<"0">>
            ELSE /\ threads[t].lastIndex = all[Len(all)].messageId
                 /\ \A i \in 1..Len(all) :
                        /\ ParseInt(all[i].messageId) # <<>>
                        /\ ParseInt(all[i].messageId)[1]
                              <= ParseInt(threads[t].lastIndex)[1]

\* a thread whose lastIndex has advanced twice
C2_Witness ==
    \E t \in DOMAIN threads :
        /\ threads[t].lastIndex = <<"2">>
        /\ Len(listMessagesByThread(Tables, t)) = 3

\* C3: two appends to one thread never obtain the same identifier: no two stored
\* messages share (threadId, messageId), and a successful reply or reply-all never
\* answers with the identifier of a message its thread already holds (so no two
\* successful answers for a thread carry the same messageId), whatever the order
\* of the requests and whichever storage calls threw before.
C3_NoSharedIdentifier ==
    /\ [](\A i, j \in 1..Len(messages) :
            (messages[i].threadId = messages[j].threadId
                /\ messages[i].messageId = messages[j].messageId) => i = j)
    /\ [][(req.op \in {"reply", "reply-all"} /\ resp' # NoResp /\ resp'.status = 201) =>
            \A i \in 1..Len(messages) :
                ~(messages[i].threadId = resp'.threadId
                    /\ messages[i].messageId = resp'.messageId)]_vars

\* an append whose identifier the thread already holds has just been refused by
\* the UNIQUE constraint: the thread's lastIndex had stayed behind its last message
C3_Witness ==
    /\ resp # NoResp
    /\ resp.op \in {"reply", "reply-all"}
    /\ resp.status = 500
    /\ \E t \in DOMAIN threads :
          LET all == listMessagesByThread(Tables, t)
          IN  /\ Len(all) = 2
              /\ all[2].messageId = <<"1">>
              /\ threads[t].lastIndex = <<"0">>
    /\ Len(messages) = 2

\* the step is the handling of a request of one of these routes
Handles(ops) == req.op \in ops /\ resp' # NoResp

\* the step adds exactly one row, at the end of table messages
AppendsOneMessage ==
    /\ Len(messages') = Len(messages) + 1
    /\ SubSeq(messages', 1, Len(messages)) = messages

\* C4: a successful writeEmail creates exactly one thread, under an identifier no
\* thread had, stores exactly one message in it, "0", leaves the thread's lastIndex
\* at "0" and answers newThreadCreated = true.
C4_WriteCreatesThread ==
    [][(Handles({"write"}) /\ resp'.status = 201) =>
          /\ resp'.threadId \notin DOMAIN threads
          /\ DOMAIN threads' = DOMAIN threads \cup {resp'.threadId}
          /\ \A t \in DOMAIN threads : threads'[t] = threads[t]
          /\ AppendsOneMessage
          /\ messages'[Len(messages')].threadId = resp'.threadId
          /\ messages'[Len(messages')].messageId = <<"0">>
          /\ threads'[resp'.threadId].lastIndex = <<"0">>
          /\ resp'.messageId = <<"0">>
          /\ resp'.newThreadCreated]_vars

\* a second thread has just been created next to an older one
C4_Witness ==
    /\ resp # NoResp
    /\ resp.op = "write"
    /\ resp.status = 201
    /\ Cardinality(DOMAIN threads) = 2
    /\ Len(listMessagesByThread(Tables, resp.threadId)) = 1

\* C5: a successful replyEmail or replyAllEmail answers messageId = the thread's
\* lastIndex before the request, plus one, and newThreadCreated = false, and the
\* message is the new last message of the thread, whichever message
\* replyToMessageId names.
C5_ReplyAppendsAtEnd ==
    [][(Handles({"reply", "reply-all"}) /\ resp'.status = 201) =>
          /\ req.threadId \in DOMAIN threads
          /\ ParseInt(threads[req.threadId].lastIndex) # <<>>
          /\ resp'.messageId
                = ToStr(ParseInt(threads[req.threadId].lastIndex)[1] + 1)
          /\ resp'.threadId = req.threadId
          /\ ~resp'.newThreadCreated
          /\ AppendsOneMessage
          /\ messages'[Len(messages')].threadId = req.threadId
          /\ messages'[Len(messages')].messageId = resp'.messageId]_vars

\* the third message of a thread answers the first one: its sender also sent the
\* second message, so the second message was not the target
C5_Witness ==
    /\ resp # NoResp
    /\ resp.op = "reply"
    /\ resp.status = 201
    /\ resp.messageId = <<"2">>
    /\ LET all == listMessagesByThread(Tables, resp.threadId)
       IN  /\ Len(all) = 3
           /\ all[3].from = all[2].from
           /\ all[3].to = <<all[1].from>>

\* the roster of a group as a request finds it: empty when the group is missing
RosterOf(groupId) ==
    IF groupId \in DOMAIN groups THEN groups[groupId].agents ELSE {}

\* a write request that passes the field checks and names somebody
WellFormedWrite ==
    /\ req.op = "write"
    /\ ~Falsy(req.groupId) /\ ~Falsy(req.from) /\ ~ToFalsy(req.to) /\ ~Falsy(req.body)
    /\ normalizeRecipients(req.to) # <<>>

\* the recipients of the write request in flight that are not on the roster
OffRoster ==
    SelectSeq(normalizeRecipients(req.to),
              LAMBDA addr : addr \notin RosterOf(req.groupId))

ValidationKinds ==
    {"missing_fields", "empty_recipients", "invalid_sender", "invalid_recipients",
     "group_mismatch", "no_recipients"}

\* C7 (as claimed): a writeEmail, replyEmail or replyAllEmail that ends in a
\* validation error leaves the groups, the threads (lastIndex included) and the
\* messages as they were.
C7_ValidationErrorNoSideEffect ==
    [][(Handles({"write", "reply", "reply-all"}) /\ resp'.status = 400
          /\ resp'.kind \in ValidationKinds) =>
          /\ groups' = groups
          /\ threads' = threads
          /\ messages' = messages]_vars

\* C8 (as claimed): a writeEmail with groupId, from, a recipient and a body is
\* answered 201 with a new thread and messageId "0" also when the group did not
\* exist before the request.
C8_WriteToMissingGroupSucceeds ==
    [][(Handles({"write"}) /\ WellFormedWrite /\ dbOpen
          /\ req.groupId \notin DOMAIN groups) =>
          /\ resp'.status = 201
          /\ resp'.newThreadCreated
          /\ resp'.messageId = <<"0">>]_vars

\* the target of the reply request in flight
TargetOfReq == targetMessage(Tables, req.threadId, req.replyToMessageId)

\* a reply request that gets as far as deriving recipients from a target
ReachesTarget ==
    /\ dbOpen
    /\ ~Falsy(req.from) /\ ~Falsy(req.threadId) /\ ~Falsy(req.body)
    /\ req.threadId \in DOMAIN threads
    /\ Falsy(req.groupId) \/ req.groupId = threads[req.threadId].groupId
    /\ req.from \in RosterOf(threads[req.threadId].groupId)
    /\ TargetOfReq # <<>>

\* C9: a successful replyEmail stores a message whose recipient list is
\* [target.from]; a reply whose target was sent by the replier is rejected with
\* the "no valid recipients" validation error and stores nothing.
C9_ReplyRecipients ==
    [][Handles({"reply"}) =>
          /\ resp'.status = 201 =>
                /\ ReachesTarget
                /\ AppendsOneMessage
                /\ messages'[Len(messages')].to = <<TargetOfReq[1].from>>
          /\ (ReachesTarget /\ TargetOfReq[1].from = req.from) =>
                /\ resp'.status = 400
                /\ resp'.kind = "no_recipients"
                /\ messages' = messages]_vars

\* Bob's reply to his own reply has just been rejected; his earlier reply went to
\* the sender of the first message alone
C9_Witness ==
    /\ resp # NoResp
    /\ resp.op = "reply"
    /\ resp.kind = "no_recipients"
    /\ \E i \in 1..Len(messages) :
          /\ messages[i].messageId = <<"1">>
          /\ messages[i].to = <<Alice>>
          /\ messages[i].from = Bob

\* C10: a successful replyAllEmail stores a message whose recipients are, as a
\* set, target.from and target.to without the replier, none of them twice; when
\* nobody is left the request is rejected with a validation error and stores
\* nothing.
C10_ReplyAllRecipients ==
    [][Handles({"reply-all"}) =>
          LET everyone == IF TargetOfReq = <<>> THEN {}
                          ELSE ({TargetOfReq[1].from} \cup Elems(TargetOfReq[1].to))
                                  \ {req.from}
          IN  /\ resp'.status = 201 =>
                    /\ ReachesTarget
                    /\ AppendsOneMessage
                    /\ LET to == messages'[Len(messages')].to
                       IN  /\ Elems(to) = everyone
                           /\ Len(to) = Cardinality(everyone)
                           /\ req.from \notin Elems(to)
              /\ (ReachesTarget /\ everyone = {}) =>
                    /\ resp'.status = 400
                    /\ resp'.kind = "no_recipients"
                    /\ messages' = messages]_vars

\* Bob has answered all of a message that Alice sent to herself twice: Alice is
\* the only recipient, once
C10_Witness ==
    /\ resp # NoResp
    /\ resp.op = "reply-all"
    /\ resp.status = 201
    /\ LET all == listMessagesByThread(Tables, resp.threadId)
       IN  /\ all[1].from = Alice
           /\ all[1].to = <<Alice, Alice>>
           /\ all[Len(all)].from = Bob
           /\ all[Len(all)].to = <<Alice>>

\* a reply request that passes every check made before the target is looked up
PassesReplyChecks ==
    /\ dbOpen
    /\ ~Falsy(req.from) /\ ~Falsy(req.threadId) /\ ~Falsy(req.body)
    /\ req.threadId \in DOMAIN threads
    /\ Falsy(req.groupId) \/ req.groupId = threads[req.threadId].groupId
    /\ req.from \in RosterOf(threads[req.threadId].groupId)

\* the rows the claimed target rule selects for the reply request in flight: the
\* last row of the thread when replyToMessageId is omitted, else the rows of the
\* thread with that identifier
ClaimedTargetRows ==
    LET ofThread == {i \in 1..Len(messages) : messages[i].threadId = req.threadId}
    IN  IF Falsy(req.replyToMessageId)
        THEN {i \in ofThread : \A j \in ofThread : j <= i}
        ELSE {i \in ofThread : messages[i].messageId = req.replyToMessageId}

\* C11: the target of a replyEmail or replyAllEmail is the last message of the
\* thread in creation order, which carries the thread's lastIndex, when
\* replyToMessageId is omitted, and the message of the same thread with that
\* identifier when it is given (the stored recipients are derived from that
\* message and no other); when there is no such message the request is answered
\* 404 and the tables stay as they were.
C11_ReplyTarget ==
    [][(Handles({"reply", "reply-all"}) /\ PassesReplyChecks) =>
          IF ClaimedTargetRows = {}
          THEN /\ resp'.status = 404
               /\ resp'.kind = "message_not_found"
               /\ groups' = groups /\ threads' = threads /\ messages' = messages
          ELSE LET target == messages[CHOOSE i \in ClaimedTargetRows : TRUE]
                   others == ({target.from} \cup Elems(target.to)) \ {req.from}
               IN  /\ Cardinality(ClaimedTargetRows) = 1
                   /\ Falsy(req.replyToMessageId) =>
                          target.messageId = threads[req.threadId].lastIndex
                   /\ resp'.status \in {201, 400}
                   /\ resp'.status = 201 =>
                          /\ AppendsOneMessage
                          /\ IF req.op = "reply"
                             THEN messages'[Len(messages')].to = <<target.from>>
                             ELSE Elems(messages'[Len(messages')].to) = others
                   /\ resp'.status = 400 =>
                          /\ resp'.kind = "no_recipients"
                          /\ IF req.op = "reply" THEN target.from = req.from
                             ELSE others = {}]_vars

\* Bob has answered all of the first message, sent by Alice to Bob and Carol,
\* after his own reply to it: the recipients are those of the first message
C11_Witness ==
    /\ resp # NoResp
    /\ resp.op = "reply-all"
    /\ resp.status = 201
    /\ LET all == listMessagesByThread(Tables, resp.threadId)
       IN  /\ Len(all) = 3
           /\ all[1].from = Alice
           /\ all[2].from = Bob /\ all[2].to = <<Alice>>
           /\ all[3].from = Bob /\ all[3].to = <<Alice, Carol>>

\* the rows a getMessage without threadId searches: those carrying the
\* identifier asked for, within the group of the query when it names one
SearchedRows ==
    {i \in 1..Len(messages) :
        /\ messages[i].messageId = req.messageId
        /\ Falsy(req.groupId) \/ messages[i].groupId = req.groupId}

\* C12: a getMessage(messageId) without threadId is answered 404 when no stored
\* message (of the group of the query, if it names one) carries the identifier,
\* 200 with that message when exactly one does, and otherwise 400 with a list
\* that holds exactly one entry for each thread holding such a message, each
\* entry with the group of its thread.
C12_Disambiguation ==
    [][(Handles({"get-message"}) /\ dbOpen /\ Falsy(req.threadId)) =>
          LET found == SearchedRows
              holders == {messages[i].threadId : i \in found}
          IN  /\ found = {} => resp'.status = 404
              /\ Cardinality(found) = 1 =>
                    LET row == messages[CHOOSE i \in found : TRUE]
                    IN  /\ resp'.status = 200
                        /\ resp'.data.threadId = row.threadId
                        /\ resp'.data.messageId = req.messageId
                        /\ resp'.data.groupId = row.groupId
                        /\ resp'.data.from = row.from
                        /\ resp'.data.to = row.to
                        /\ resp'.data.body = row.body
              /\ Cardinality(found) > 1 =>
                    /\ resp'.status = 400
                    /\ resp'.kind = "ambiguous"
                    /\ {resp'.data[i].threadId : i \in 1..Len(resp'.data)} = holders
                    /\ Len(resp'.data) = Cardinality(holders)
                    /\ \A i \in 1..Len(resp'.data) :
                          /\ resp'.data[i].threadId \in DOMAIN threads
                          /\ resp'.data[i].groupId
                                = threads[resp'.data[i].threadId].groupId]_vars

\* message "0" was asked for without a thread while two threads, of two groups,
\* hold one: the answer lists both
C12_Witness ==
    /\ resp # NoResp
    /\ resp.op = "get-message"
    /\ resp.kind = "ambiguous"
    /\ Len(resp.data) = 2
    /\ resp.data[1].threadId # resp.data[2].threadId
    /\ resp.data[1].groupId # resp.data[2].groupId

\* a letter in lower case
Lower(c) == IF c = "R" THEN "r" ELSE IF c = "E" THEN "e" ELSE c

\* computeReplySubject as claimed
ClaimedReplySubject(subject) ==
    LET t == Trim(subject)
    IN  IF t = <<>> THEN <<"R", "e", ":", " ", "N", "o", " ", "s", "u", "b", "j", "e", "c", "t">>
        ELSE IF Len(t) >= 3 /\ <<Lower(t[1]), Lower(t[2]), t[3]>> = <<"r", "e", ":">>
        THEN t
        ELSE <<"R", "e", ":", " ">> \o t

\* C13: every message stored by replyEmail or replyAllEmail (every message but
\* the "0" of its thread) has the subject computeReplySubject(subject of its
\* thread): "Re: No subject" for an empty or blank subject, the trimmed subject
\* itself when it starts with "re:" in any letter case, else "Re: " followed by
\* the trimmed subject.
C13_ReplySubject ==
    \A i \in 1..Len(messages) :
        messages[i].messageId # <<"0">> =>
            /\ messages[i].threadId \in DOMAIN threads
            /\ messages[i].subject
                  = ClaimedReplySubject(threads[messages[i].threadId].subject)

\* a reply in a thread whose subject is " rE:": the reply carries "rE:"
C13_Witness ==
    \E i \in 1..Len(messages) :
        /\ messages[i].messageId = <<"1">>
        /\ threads[messages[i].threadId].subject = <<" ", "r", "E", ":">>
        /\ messages[i].subject = <<"r", "E", ":">>

\* the threads a getMessage without threadId searches
SearchedThreads ==
    {t \in DOMAIN threads : Falsy(req.groupId) \/ threads[t].groupId = req.groupId}

\* C14 (as claimed): in every reachable state every persisted thread holds a
\* message "0"; so a getMessage("0") without threadId is answered with a message
\* exactly when one thread exists in the searched scope, and with the
\* disambiguation error when two or more exist.
C14_EveryThreadHasMessageZero ==
    /\ [](\A t \in DOMAIN threads :
            \E i \in 1..Len(messages) :
                messages[i].threadId = t /\ messages[i].messageId = <<"0">>)
    /\ [][(Handles({"get-message"}) /\ dbOpen /\ Falsy(req.threadId)
            /\ req.messageId = <<"0">>) =>
            /\ resp'.status = 200 <=> Cardinality(SearchedThreads) = 1
            /\ Cardinality(SearchedThreads) >= 2 =>
                  resp'.status = 400 /\ resp'.kind = "ambiguous"]_vars

\* C15 (as claimed): a writeEmail, replyEmail or replyAllEmail during which a
\* storage call fails is answered with the internal error and leaves no partial
\* state: the threads and messages are as before the request, no persisted
\* thread is without a message, and the last stored message of every thread is
\* the one its lastIndex names.
C15_NoPartialState ==
    /\ [][(Handles({"write", "reply", "reply-all"}) /\ resp'.status = 500) =>
            threads' = threads /\ messages' = messages]_vars
    /\ [](\A t \in DOMAIN threads :
            LET all == SelectSeq(messages, LAMBDA row : row.threadId = t)
            IN  /\ all # <<>>
                /\ all[Len(all)].messageId = threads[t].lastIndex)

\* the limit an inbox request asks for, as claimed: the positive integer its
\* query spells, else 10
ClaimedLimit(raw) ==
    IF \E k \in 1..(MaxInbox + 1) : raw = ToStr(k)
    THEN CHOOSE k \in 1..(MaxInbox + 1) : raw = ToStr(k)
    ELSE 10

\* the group an answered inbox request is about
InboxGroup ==
    IF ~Falsy(req.groupId) THEN req.groupId ELSE CHOOSE g \in DOMAIN groups : TRUE

\* the rows an inbox request may return: those of its group and, with an agent
\* filter, with that agent among the recipients
InboxRows ==
    {i \in 1..Len(messages) :
        /\ messages[i].groupId = InboxGroup
        /\ Falsy(req.agentAddress) \/ req.agentAddress \in Elems(messages[i].to)}

\* the j-th newest of them
NewestInboxRow(j) ==
    CHOOSE i \in InboxRows : Cardinality({e \in InboxRows : e > i}) = j - 1

\* C16: an answered inbox (full or short) holds min(limit, number of eligible
\* messages) entries, limit being 10 unless the query spells a positive integer;
\* the entries are the newest eligible messages, newest first, each once; the
\* eligible messages are those of the group and, with an agent filter, those
\* whose recipient list contains the agent.
C16_InboxNewestFirst ==
    [][(Handles({"inbox", "inbox-short"}) /\ resp'.status = 200) =>
          LET limit == ClaimedLimit(req.limit)
              size == IF Cardinality(InboxRows) < limit
                      THEN Cardinality(InboxRows) ELSE limit
          IN  /\ Falsy(req.groupId) => Cardinality(DOMAIN groups) = 1
              /\ Len(resp'.data) = size
              /\ \A j \in 1..size :
                    LET row == messages[NewestInboxRow(j)]
                    IN  /\ resp'.data[j].threadId = row.threadId
                        /\ resp'.data[j].messageId = row.messageId
                        /\ resp'.data[j].groupId = InboxGroup
                        /\ resp'.data[j].from = row.from
                        /\ resp'.data[j].createdAt = row.createdAt
                        /\ req.op = "inbox" =>
                              /\ resp'.data[j].to = row.to
                              /\ resp'.data[j].body = row.body]_vars

\* the inbox of @g was asked for without a usable limit while @g held eleven
\* messages and @h one: the answer holds the ten newest of @g
C16_Witness ==
    /\ resp # NoResp
    /\ resp.op = "inbox"
    /\ resp.status = 200
    /\ Len(resp.data) = 10
    /\ Cardinality({i \in 1..Len(messages) : messages[i].groupId = GroupG}) = 11
    /\ \E i \in 1..Len(messages) : messages[i].groupId = GroupH
    /\ resp.data[1].messageId = <<"1", "0">>

\* C17 (as claimed): an answered GET /messages/by-name/:agentAddress holds
\* exactly the messages (of the group of the query) whose recipient list
\* contains the agent, and so none that the agent only sent.
C17_ByNameReturnsReceived ==
    [][(Handles({"by-name"}) /\ resp'.status = 200) =>
          {<<resp'.data[j].threadId, resp'.data[j].messageId>> :
                j \in 1..Len(resp'.data)}
            = {<<messages[i].threadId, messages[i].messageId>> :
                i \in {k \in 1..Len(messages) :
                        /\ req.agentAddress \in Elems(messages[k].to)
                        /\ Falsy(req.groupId) \/ messages[k].groupId = req.groupId}}]_vars

\* the stored row an entry of an answer is about
RowOf(entry) ==
    messages[CHOOSE i \in 1..Len(messages) :
                /\ messages[i].threadId = entry.threadId
                /\ messages[i].messageId = entry.messageId]

\* C18: every bodyPreview of an answered short inbox is the first
\* min(500, length) characters of the stored body and nothing else: a body of at
\* most 500 characters whole, a longer one cut to its first 500; the stored
\* messages are not altered.
C18_PreviewIsPrefix ==
    [][(Handles({"inbox-short"}) /\ resp'.status = 200) =>
          /\ messages' = messages
          /\ \A j \in 1..Len(resp'.data) :
                LET body == RowOf(resp'.data[j]).body
                    preview == resp'.data[j].bodyPreview
                IN  /\ Len(preview) = IF Len(body) <= 500 THEN Len(body) ELSE 500
                    /\ \A k \in 1..Len(preview) : preview[k] = body[k]
                    /\ Len(body) <= 500 => preview = body]_vars

\* the short inbox has just shown 500 characters of a stored body of 501
C18_Witness ==
    /\ resp # NoResp
    /\ resp.op = "inbox-short"
    /\ resp.status = 200
    /\ \E j \in 1..Len(resp.data) :
          /\ Len(resp.data[j].bodyPreview) = 500
          /\ Len(RowOf(resp.data[j]).body) = 501

\* C19: a stored message (threadId, messageId) is never altered: across every
\* step but the handling of a reset, getMessage gives for every stored key the
\* same sender, recipients, subject, body and creation time as before; and a
\* GET /messages/:messageId that names the thread of a stored message answers
\* with exactly these.
C19_MessagesImmutable ==
    [][/\ ~(req.op = "reset" /\ resp' # NoResp) =>
            \A i \in 1..Len(messages) :
                LET t == messages[i].threadId
                    m == messages[i].messageId
                IN  /\ getMessage(Tables, t, m) # <<>>
                    /\ getMessage(Tables, t, m)' = getMessage(Tables, t, m)
       /\ (Handles({"get-message"}) /\ dbOpen /\ ~Falsy(req.threadId)
            /\ (Falsy(req.groupId) \/ req.groupId \in DOMAIN groups)
            /\ \E i \in 1..Len(messages) :
                    /\ messages[i].threadId = req.threadId
                    /\ messages[i].messageId = req.messageId) =>
            LET stored == getMessage(Tables, req.threadId, req.messageId)[1]
            IN  /\ resp'.status = 200
                /\ resp'.data.from = stored.from
                /\ resp'.data.to = stored.to
                /\ resp'.data.subject = stored.subject
                /\ resp'.data.body = stored.body
                /\ resp'.data.createdAt = stored.createdAt
                /\ messages' = messages]_vars

\* the first message of a thread has just been read, with its creation time,
\* after two more messages were appended to the thread
C19_Witness ==
    /\ resp # NoResp
    /\ resp.op = "get-message"
    /\ resp.status = 200
    /\ resp.data.messageId = <<"0">>
    /\ resp.data.createdAt = Time(1)
    /\ Len(listMessagesByThread(Tables, resp.data.threadId)) = 3

\* C20: a replyEmail or replyAllEmail with sender and body, and a getThread, that
\* name a thread which does not exist are answered 404 "thread not found", and
\* the groups, threads and messages are as before the request.
C20_MissingThreadNotFound ==
    [][(Handles({"reply", "reply-all", "get-thread"}) /\ dbOpen
          /\ ~Falsy(req.threadId) /\ req.threadId \notin DOMAIN threads
          /\ (req.op # "get-thread" => ~Falsy(req.from) /\ ~Falsy(req.body))) =>
          /\ resp'.status = 404
          /\ resp'.kind = "thread_not_found"
          /\ groups' = groups
          /\ threads' = threads
          /\ messages' = messages]_vars

\* thread u2 has just been asked for while only u1 exists
C20_Witness ==
    /\ resp # NoResp
    /\ resp.op = "get-thread"
    /\ resp.status = 404
    /\ DOMAIN threads = {Uuid(1)}
    /\ messages # <<>>

\* C21: an inbox request (full or short) without groupId is answered 404 when
\* no group exists, 400 without any message when more than one group exists, and
\* when exactly one group exists with the newest messages of that group (up to
\* the default limit of 10) and of no other.
C21_InboxWithoutGroup ==
    [][(Handles({"inbox", "inbox-short"}) /\ dbOpen /\ Falsy(req.groupId)
          /\ Falsy(req.agentAddress) /\ Falsy(req.limit)) =>
          LET n == Cardinality(DOMAIN groups)
          IN  /\ n = 0 => resp'.status = 404 /\ resp'.data = <<>>
              /\ n > 1 => resp'.status = 400 /\ resp'.data = <<>>
              /\ n = 1 =>
                    LET only == CHOOSE g \in DOMAIN groups : TRUE
                        rows == {i \in 1..Len(messages) : messages[i].groupId = only}
                    IN  /\ resp'.status = 200
                        /\ Len(resp'.data)
                              = IF Cardinality(rows) < 10 THEN Cardinality(rows) ELSE 10
                        /\ \A j \in 1..Len(resp'.data) :
                              /\ resp'.data[j].groupId = only
                              /\ \E i \in rows :
                                    /\ messages[i].threadId = resp'.data[j].threadId
                                    /\ messages[i].messageId = resp'.data[j].messageId]_vars

\* the inbox was asked for without a group while @g and @h both held messages
C21_Witness ==
    /\ resp # NoResp
    /\ resp.op = "inbox"
    /\ resp.status = 400
    /\ \E i, j \in 1..Len(messages) :
          messages[i].groupId = GroupG /\ messages[j].groupId = GroupH

\* C22: ensureGroup is an idempotent get-or-create.  Whenever POST /emails/write
\* reaches it, the group of the request exists afterwards under its one id, a
\* second call changes nothing and returns the same group, a missing group is
\* created with an empty roster, an existing group keeps its roster, every other
\* group, every thread and every message is left as it was, and the handler
\* changes table groups in no other way.
C22_EnsureGroupIdempotent ==
    [][(Handles({"write"}) /\ dbOpen
          /\ resp'.kind \notin {"missing_fields", "empty_recipients"}) =>
          LET g == req.groupId
              once == ensureGroup(Tables, g, "none")
              twice == ensureGroup(once.db, g, "none")
          IN  /\ ~once.threw /\ ~twice.threw
              /\ twice.db = once.db
              /\ twice.group = once.group
              /\ DOMAIN once.db.groups = DOMAIN groups \cup {g}
              /\ \A h \in DOMAIN groups : once.db.groups[h] = groups[h]
              /\ g \notin DOMAIN groups => once.db.groups[g].agents = {}
              /\ once.group = once.db.groups[g]
              /\ once.db.threads = threads
              /\ once.db.messages = messages
              /\ groups' = once.db.groups]_vars

\* a write was handled for a group that was missing (now there with an empty
\* roster) and one for a group the wizard had made (roster kept, message stored)
C22_Witness ==
    /\ resp # NoResp
    /\ resp.op = "write"
    /\ \E g, h \in DOMAIN groups :
          /\ groups[g].agents = {}
          /\ groups[h].agents # {}
          /\ \E i \in 1..Len(messages) : messages[i].groupId = h

\* every message of db names a thread and a group of db, every thread a group
ReferencesHold(db) ==
    /\ \A i \in 1..Len(db.messages) :
          /\ db.messages[i].threadId \in DOMAIN db.threads
          /\ db.messages[i].groupId \in DOMAIN db.groups
    /\ \A t \in DOMAIN db.threads : db.threads[t].groupId \in DOMAIN db.groups

\* C23: a reset that answers 200 leaves no message, no thread and no group,
\* whatever the tables held.  Its first delete removes the messages and nothing
\* else, its second the threads and nothing else, its third the groups, and
\* after each of the three every remaining message and thread still refers to
\* rows that exist.
C23_ResetEmptiesEverything ==
    [][(Handles({"reset"}) /\ resp'.status = 200) =>
          LET steps == resetSteps(Tables)
          IN  /\ messages' = <<>> /\ threads' = <<>> /\ groups' = <<>>
              /\ steps[1] = [Tables EXCEPT !.messages = <<>>]
              /\ steps[2] = [steps[1] EXCEPT !.threads = <<>>]
              /\ steps[3] = [steps[2] EXCEPT !.groups = <<>>]
              /\ \A k \in 1..3 : ReferencesHold(steps[k])]_vars

\* a reset has been answered 200: the connection is closed and the tables empty
C23_Witness ==
    /\ resp # NoResp
    /\ resp.op = "reset"
    /\ resp.status = 200
    /\ ~dbOpen
    /\ messages = <<>> /\ threads = <<>> /\ groups = <<>>

\* C24: a thread appears only while POST /emails/write is handled and threads
\* disappear only all together, in a reset.  A reply or reply-all leaves the set
\* of threads as it was, changes no field of any thread other than lastIndex,
\* changes no thread but the addressed one, changes no stored message, and when
\* it is answered 201 adds exactly one message, to the addressed thread.
C24_ReplyFrame ==
    [][/\ DOMAIN threads' \ DOMAIN threads # {} => req.op = "write"
       /\ DOMAIN threads \ DOMAIN threads' # {} => req.op = "reset" /\ threads' = <<>>
       /\ Handles({"reply", "reply-all"}) =>
             /\ DOMAIN threads' = DOMAIN threads
             /\ \A t \in DOMAIN threads :
                   /\ threads'[t] = [threads[t] EXCEPT !.lastIndex = threads'[t].lastIndex]
                   /\ t # req.threadId => threads'[t] = threads[t]
             /\ \/ messages' = messages /\ threads' = threads /\ resp'.kind # "sent"
                \/ /\ resp'.kind = "sent"
                   /\ AppendsOneMessage
                   /\ messages'[Len(messages')].threadId = req.threadId
                   /\ threads'[req.threadId].lastIndex # threads[req.threadId].lastIndex]_vars

\* a reply was stored in one of two threads
C24_Witness ==
    /\ resp # NoResp
    /\ resp.op \in {"reply", "reply-all"}
    /\ resp.kind = "sent"
    /\ Cardinality(DOMAIN threads) = 2
    /\ Len(messages) = 3

\* C25 (as claimed): an answered GET /messages/:messageId whose query holds both
\* a threadId and a groupId returns a message of the group the query names.
C25_GetMessageWithinGroup ==
    [][(Handles({"get-message"}) /\ ~Falsy(req.groupId) /\ ~Falsy(req.threadId)
          /\ resp'.status = 200) =>
          resp'.data.groupId = req.groupId]_vars

\* C26: every stored message belongs to a stored thread and carries the groupId
\* of that thread, whatever groupId the write, reply and reply-all requests pass.
C26_MessageGroupIsThreadGroup ==
    \A i \in 1..Len(messages) :
        /\ messages[i].threadId \in DOMAIN threads
        /\ messages[i].groupId = threads[messages[i].threadId].groupId

\* a reply has been stored while both groups hold a thread with messages
C26_Witness ==
    /\ resp # NoResp
    /\ resp.op \in {"reply", "reply-all"}
    /\ resp.kind = "sent"
    /\ \E i, j \in 1..Len(messages) :
          messages[i].groupId = GroupG /\ messages[j].groupId = GroupH

C28_RecipientsNonEmptyAndNotSender ==
    [][/\ \A i \in 1..Len(messages') : messages'[i].to # <<>>
       /\ (Handles({"reply", "reply-all"}) /\ Len(messages') > Len(messages)) =>
             LET stored == messages'[Len(messages')]
             IN  /\ stored.from = req.from
                 /\ stored.from \notin Elems(stored.to)]_vars

\* a reply-all to the sender's own message has been stored: the sender was among
\* the addresses of the message replied to and is not among the recipients
C28_Witness ==
    /\ resp # NoResp
    /\ resp.op = "reply-all"
    /\ resp.kind = "sent"
    /\ Len(messages) >= 2
    /\ LET stored == messages[Len(messages)]
           target == messages[Len(messages) - 1]
       IN  /\ target.threadId = stored.threadId
           /\ target.from = stored.from
           /\ stored.to # <<>>

\* C29: a reply or reply-all to a stored thread whose request names a groupId
\* other than the group of the thread is answered 400 and changes no table,
\* also when the named group exists and the sender is on both rosters.
C29_GroupMismatchRejected ==
    [][(/\ Handles({"reply", "reply-all"})
        /\ dbOpen
        /\ ~Falsy(req.groupId)
        /\ req.threadId \in DOMAIN threads
        /\ threads[req.threadId].groupId # req.groupId) =>
          /\ resp'.status = 400
          /\ UNCHANGED <<groups, threads, messages>>]_vars

\* a reply was refused for its groupId while its sender, alice, was on the
\* rosters of both groups and the thread held a message
C29_Witness ==
    /\ resp # NoResp
    /\ resp.op \in {"reply", "reply-all"}
    /\ resp.kind = "group_mismatch"
    /\ DOMAIN groups = {GroupG, GroupH}
    /\ Alice \in groups[GroupG].agents
    /\ Alice \in groups[GroupH].agents
    /\ messages # <<>>

\* C30: replySubject applied to its own result returns that result, for the
\* subject of every thread replied to; no step changes the subject of a thread;
\* and the message a reply or reply-all stores carries the same subject as every
\* reply stored in its thread before it.
C30_ReplySubjectStable ==
    [][/\ \A t \in DOMAIN threads \cap DOMAIN threads' :
             threads'[t].subject = threads[t].subject
       /\ (Handles({"reply", "reply-all"}) /\ Len(messages') > Len(messages)) =>
             LET stored == messages'[Len(messages')]
                 once == replySubject(threads[req.threadId].subject)
             IN  /\ replySubject(once) = once
                 /\ stored.subject = once
                 /\ \A i \in 1..Len(messages) :
                       (/\ messages[i].threadId = stored.threadId
                        /\ messages[i].messageId # <<"0">>) =>
                           messages[i].subject = stored.subject]_vars

\* a second reply has been stored in a thread whose subject had no prefix
C30_Witness ==
    /\ resp # NoResp
    /\ resp.op \in {"reply", "reply-all"}
    /\ resp.kind = "sent"
    /\ Len(messages) = 3
    /\ messages[2].threadId = messages[3].threadId
    /\ messages[2].messageId # <<"0">>
    /\ messages[3].messageId # <<"0">>
    /\ ~StartsWithRe(Trim(threads[messages[3].threadId].subject))
    /\ messages[3].subject = messages[2].subject

====
